---- MODULE Spec2Model ----
(***************************************************************************)
(* Model of the rule engine of Lab.py: evaluate_rule and run_rules.        *)
(*                                                                         *)
(* Python / JSON values are tagged records:                                *)
(*   t : "int" | "float" | "bool" | "str" | "null" | "list"                *)
(*   n : the number (an int as itself, a float in tenths, a bool as 0/1)   *)
(*   s : the characters of a str                                           *)
(*   l : the elements of a list                                            *)
(* An outcome of evaluating Python code is "True", "False" or "Raise".     *)
(***************************************************************************)
EXTENDS Integers, Sequences, FiniteSets, TLC

VARIABLES rules, facts, out, calls

vars == <<rules, facts, out, calls>>

\* Bounds of the model.
MaxRules == 3
MaxCalls == 2

-----------------------------------------------------------------------------
\* Values

Val(t, n, s, l) == [t |-> t, n |-> n, s |-> s, l |-> l]
PyInt(n) == Val("int", n, <<>>, <<>>)
PyFloat(tenths) == Val("float", tenths, <<>>, <<>>)
PyBool(b) == Val("bool", IF b THEN 1 ELSE 0, <<>>, <<>>)
None == Val("null", 0, <<>>, <<>>)
PyStr(cs) == Val("str", 0, cs, <<>>)
PyList(vs) == Val("list", 0, <<>>, vs)

\* A Python float is modelled to one decimal place: the number of tenths.
FloatUnit == 10

\* The characters the model's strings use, in code point order.
Alphabet ==
  << "!", "+", "-", ".", "0", "1", "2", "3", "4", "5", "6", "7", "8", "9",
     "<", "=", ">", "_", "a", "b", "c", "d", "e", "f", "g", "h", "i", "j",
     "k", "l", "m", "n", "o", "p", "q", "r", "s", "t", "u", "v", "w", "x",
     "y", "z", "~" >>

ord(c) == CHOOSE i \in 1..Len(Alphabet) : Alphabet[i] = c

Digits == <<"0", "1", "2", "3", "4", "5", "6", "7", "8", "9">>
IsDigit(c) == \E i \in 1..10 : Digits[i] = c
DigitVal(c) == (CHOOSE i \in 1..10 : Digits[i] = c) - 1

RECURSIVE DigitsVal(_)
DigitsVal(cs) ==
  IF cs = <<>> THEN 0
  ELSE DigitsVal(SubSeq(cs, 1, Len(cs) - 1)) * 10 + DigitVal(cs[Len(cs)])

\* float(str): an optional sign, digits with at most one point, at least one
\* digit; anything else is a ValueError.
Unsigned(cs) == IF cs # <<>> /\ cs[1] \in {"+", "-"} THEN Tail(cs) ELSE cs
PointAt(cs) == {i \in 1..Len(cs) : cs[i] = "."}
StrIsFloat(cs) ==
  LET b == Unsigned(cs)
  IN /\ Cardinality(PointAt(b)) <= 1
     /\ \A i \in 1..Len(b) : b[i] = "." \/ IsDigit(b[i])
     /\ \E i \in 1..Len(b) : IsDigit(b[i])
StrToFloat(cs) ==
  LET b == Unsigned(cs)
      p == IF PointAt(b) = {} THEN Len(b) + 1 ELSE CHOOSE i \in PointAt(b) : TRUE
      whole == DigitsVal(SubSeq(b, 1, p - 1))
      frac == IF p + 1 <= Len(b) THEN DigitVal(b[p + 1]) ELSE 0
      mag == whole * FloatUnit + frac
  IN IF cs[1] = "-" THEN 0 - mag ELSE mag

\* float(x) succeeds: x is an int, a float, a bool or a str that parses.
FloatOk(x) ==
  \/ x.t \in {"int", "float", "bool"}
  \/ x.t = "str" /\ StrIsFloat(x.s)

\* float(x), in tenths, where FloatOk(x).
float(x) ==
  CASE x.t = "float" -> x.n
    [] x.t \in {"int", "bool"} -> x.n * FloatUnit
    [] x.t = "str" -> StrToFloat(x.s)

\* isinstance(x, (int, float)): bool is a subclass of int.
isinstance_int_float(x) == x.t \in {"int", "float", "bool"}

-----------------------------------------------------------------------------
\* OPERATORS

OpEq == <<"=", "=">>
OpNe == <<"!", "=">>
OpGe == <<">", "=">>
OpLe == <<"<", "=">>
OpGt == <<">">>
OpLt == <<"<">>

OPERATORS == {OpEq, OpNe, OpGe, OpLe, OpGt, OpLt}

\* OPERATORS[op] succeeds: op is a str and one of the six keys (a list is
\* unhashable and any other key is a KeyError).
OpKnown(op) == op.t = "str" /\ op.s \in OPERATORS

\* OPERATORS[k](a, b) on two numbers.
ApplyNum(k, a, b) ==
  CASE k = OpEq -> a = b
    [] k = OpNe -> a # b
    [] k = OpGe -> a >= b
    [] k = OpLe -> a <= b
    [] k = OpGt -> a > b
    [] k = OpLt -> a < b

Bool3(b) == IF b THEN "True" ELSE "False"

\* A number as Python compares it with another number.
NumVal(x) == IF x.t = "float" THEN x.n ELSE x.n * FloatUnit

Kind(x) == IF x.t \in {"int", "float", "bool"} THEN "num" ELSE x.t

\* The smallest element of a set of positions, or 0.
FirstOf(d) == IF d = {} THEN 0 ELSE CHOOSE i \in d : \A j \in d : i <= j
MinLen(a, b) == IF Len(a) < Len(b) THEN Len(a) ELSE Len(b)

\* The first position where two strs differ, or 0.
FirstDiffStr(a, b) == FirstOf({i \in 1..MinLen(a, b) : a[i] # b[i]})

RECURSIVE PyEq(_, _)
PyEq(a, b) ==
  CASE Kind(a) # Kind(b) -> FALSE
    [] Kind(a) = Kind(b) /\ Kind(a) = "num" -> NumVal(a) = NumVal(b)
    [] Kind(a) = Kind(b) /\ Kind(a) = "str" -> a.s = b.s
    [] Kind(a) = Kind(b) /\ Kind(a) = "null" -> TRUE
    [] Kind(a) = Kind(b) /\ Kind(a) = "list" ->
         /\ Len(a.l) = Len(b.l)
         /\ \A i \in 1..Len(a.l) : PyEq(a.l[i], b.l[i])

\* The first position where two lists differ, or 0.
FirstDiffList(a, b) == FirstOf({i \in 1..MinLen(a, b) : ~PyEq(a[i], b[i])})

\* OPERATORS[k](a, b) on the original values: "True", "False", or "Raise"
\* for the TypeError of an ordering between unorderable types.
RECURSIVE Direct(_, _, _)
Direct(k, a, b) ==
  CASE k = OpEq -> Bool3(PyEq(a, b))
    [] k = OpNe -> Bool3(~PyEq(a, b))
    [] k \notin {OpEq, OpNe} /\ Kind(a) # Kind(b) -> "Raise"
    [] k \notin {OpEq, OpNe} /\ Kind(a) = Kind(b) /\ Kind(a) = "null" -> "Raise"
    [] k \notin {OpEq, OpNe} /\ Kind(a) = Kind(b) /\ Kind(a) = "num" ->
         Bool3(ApplyNum(k, NumVal(a), NumVal(b)))
    [] k \notin {OpEq, OpNe} /\ Kind(a) = Kind(b) /\ Kind(a) = "str" ->
         LET i == FirstDiffStr(a.s, b.s)
         IN IF i = 0 THEN Bool3(ApplyNum(k, Len(a.s), Len(b.s)))
            ELSE Bool3(ApplyNum(k, ord(a.s[i]), ord(b.s[i])))
    [] k \notin {OpEq, OpNe} /\ Kind(a) = Kind(b) /\ Kind(a) = "list" ->
         LET i == FirstDiffList(a.l, b.l)
         IN IF i = 0 THEN Bool3(ApplyNum(k, Len(a.l), Len(b.l)))
            ELSE Direct(k, a.l[i], b.l[i])

-----------------------------------------------------------------------------
\* evaluate_rule

\* len(cond) works: cond is a str or a list (a number, a bool or None has no
\* len() and the TypeError leaves evaluate_rule).
Sized(cond) == cond.t \in {"str", "list"}
len(cond) == IF cond.t = "str" THEN Len(cond.s) ELSE Len(cond.l)

\* field, op, value = cond: the elements of a list, the characters of a str.
Unpack(cond) ==
  IF cond.t = "str" THEN [i \in 1..3 |-> PyStr(<<cond.s[i]>>)] ELSE cond.l

\* hash(field) works: a list is unhashable.
Hashable(field) == field.t # "list"

\* field in facts: the keys of facts are strs.
InFacts(field, facts_) == field.t = "str" /\ field.s \in DOMAIN facts_

\* A missing field that is skipped instead of failing the rule.
OnMissingFieldSkip == "True"

\* if field not in facts: return False
OnMissingField == "False"

\* The numeric branch: both floats and the operator, or an exception that is
\* passed over.
NumericOk(left, op, value) == FloatOk(left) /\ FloatOk(value) /\ OpKnown(op)

\* The body of the try block for one condition: "True" when the loop goes on
\* to the next condition, "False" when it returns False, "Raise" when an
\* exception reaches the outer except.
Compare(left, op, value) ==
  IF /\ (isinstance_int_float(value) \/ isinstance_int_float(left))
     /\ NumericOk(left, op, value)
  THEN Bool3(ApplyNum(op.s, float(left), float(value)))
  ELSE IF OpKnown(op) THEN Direct(op.s, left, value) ELSE "Raise"

\* An outer handler that passes over the exception and goes on.
OnExceptionPass(r) == IF r = "Raise" THEN "True" ELSE r

\* except Exception: return False
OnException(r) == IF r = "Raise" THEN "False" ELSE r

\* One pass of the loop body for cond: "True" (satisfied, the loop goes on),
\* "False" (evaluate_rule returns False) or "Raise" (an exception leaves
\* evaluate_rule).
satisfies(cond, facts_) ==
  IF ~Sized(cond) THEN "Raise"
  ELSE IF len(cond) # 3 THEN "False"
  ELSE LET field == Unpack(cond)[1]
           op == Unpack(cond)[2]
           value == Unpack(cond)[3]
       IN IF ~Hashable(field) THEN "Raise"
          ELSE IF ~InFacts(field, facts_) THEN OnMissingField
          ELSE OnException(Compare(facts_[field.s], op, value))

\* rule.get("conditions", [])
Conditions(rule) == IF rule.conditions = <<>> THEN <<>> ELSE rule.conditions[1]

RECURSIVE EvalFrom(_, _, _)
EvalFrom(conds, facts_, i) ==
  IF i > Len(conds) THEN "True"
  ELSE LET r == satisfies(conds[i], facts_)
       IN IF r = "True" THEN EvalFrom(conds, facts_, i + 1) ELSE r

evaluate_rule(rule, facts_) == EvalFrom(Conditions(rule), facts_, 1)

-----------------------------------------------------------------------------
\* run_rules

\* r.get("priority", 0)
Priority(r) == IF r.priority = <<>> THEN 0 ELSE r.priority[1]

\* A sort that puts r before the elements of equal key.
InsertBeforeEquals(s, r) ==
  LET k == Cardinality({i \in 1..Len(s) : Priority(s[i]) > Priority(r)})
  IN SubSeq(s, 1, k) \o <<r>> \o SubSeq(s, k + 1, Len(s))

\* Where a stable descending sort puts r in a sorted sequence: after every
\* element whose key is not smaller.
Insert(s, r) ==
  LET k == Cardinality({i \in 1..Len(s) : Priority(s[i]) >= Priority(r)})
  IN SubSeq(s, 1, k) \o <<r>> \o SubSeq(s, k + 1, Len(s))

\* sorted(rules, key=lambda r: r.get("priority", 0), reverse=True)
RECURSIVE sorted(_)
sorted(rs) ==
  IF rs = <<>> THEN <<>>
  ELSE Insert(sorted(SubSeq(rs, 1, Len(rs) - 1)), rs[Len(rs)])

\* A loop that stops at the first match.
MatchedFirst(sorted_rules, facts_) ==
  LET m == SelectSeq(sorted_rules, LAMBDA r : evaluate_rule(r, facts_) = "True")
  IN IF m = <<>> THEN <<>> ELSE <<m[1]>>

\* The loop over sorted_rules: every rule that evaluate_rule accepts, in the
\* order of sorted_rules.
Matched(sorted_rules, facts_) ==
  SelectSeq(sorted_rules, LAMBDA r : evaluate_rule(r, facts_) = "True")

Returned(v) == [status |-> "returned", val |-> v]
Raised == [status |-> "raised", val |-> <<>>]
NotCalled == [status |-> "none", val |-> <<>>]

\* What the call gives: the matched list, or the exception of the first
\* evaluation that raises.
Outcome(sorted_rules, facts_) ==
  IF \E i \in 1..Len(sorted_rules) :
       evaluate_rule(sorted_rules[i], facts_) = "Raise"
  THEN Raised
  ELSE Returned(Matched(sorted_rules, facts_))

\* run_rules with rules.sort(...) in the place of sorted(rules, ...).
run_rules_sort_in_place(rules_, facts_) ==
  [ret |-> Outcome(sorted(rules_), facts_),
   rules |-> sorted(rules_),
   facts |-> facts_]

\* run_rules: the result of the call and the caller's two arguments after it
\* (sorted builds a new list; nothing is assigned through rules or facts).
run_rules(rules_, facts_) ==
  [ret |-> Outcome(sorted(rules_), facts_),
   rules |-> rules_,
   facts |-> facts_]

-----------------------------------------------------------------------------
\* Inputs

S_cgpa == <<"c", "g", "p", "a">>
S_family_income ==
  <<"f", "a", "m", "i", "l", "y", "_", "i", "n", "c", "o", "m", "e">>
S_score == <<"s", "c", "o", "r", "e">>
S_grade == <<"g", "r", "a", "d", "e">>

Cond(field, op, value) == PyList(<<PyStr(field), PyStr(op), value>>)

Rule(name, priority, conditions, action) ==
  [name |-> name, priority |-> priority, conditions |-> conditions,
   action |-> action]

\* Conditions of the rule level: two that the first fact set satisfies, and
\* the malformed ones (unknown operator, absent field, wrong arity,
\* incomparable types).
CgpaHigh == Cond(S_cgpa, OpGe, PyFloat(35))
IncomeLow == Cond(S_family_income, OpLe, PyInt(3000))
BadOp == Cond(S_cgpa, <<"~">>, PyFloat(35))
NoField == Cond(S_grade, OpNe, PyInt(0))
BadArity == PyList(<<PyStr(S_cgpa), PyStr(OpGe)>>)
BadType == Cond(S_cgpa, OpGe, PyStr(<<"a", "b", "c">>))

RulePool ==
  { Rule("R1", <<10>>, << <<CgpaHigh, IncomeLow>> >>, "AWARD"),
    Rule("A", <<1>>, << <<CgpaHigh>> >>, "REVIEW"),
    Rule("B", <<5>>, <<>>, "AWARD"),
    Rule("C", <<5>>, << <<>> >>, "PARTIAL"),
    Rule("D", <<>>, << <<IncomeLow, CgpaHigh>> >>, "PARTIAL"),
    Rule("E", <<0>>, << <<CgpaHigh, BadOp>> >>, "REJECT"),
    Rule("F", <<5>>, << <<BadArity, CgpaHigh>> >>, "REJECT"),
    Rule("G", <<-1>>, << <<NoField>> >>, "REVIEW"),
    Rule("H", <<1>>, << <<IncomeLow, BadType>> >>, "REVIEW"),
    Rule("I", <<-1>>, <<>>, "REJECT") }

FactPool ==
  { (S_cgpa :> PyFloat(38)) @@ (S_family_income :> PyFloat(20000)),
    (S_cgpa :> PyFloat(30)) @@ (S_family_income :> PyFloat(50000)),
    (S_cgpa :> PyStr(<<"3", ".", "8">>)) }

RECURSIVE SeqsUpTo(_, _)
SeqsUpTo(S, n) ==
  IF n = 0 THEN {<<>>}
  ELSE LET shorter == SeqsUpTo(S, n - 1)
       IN shorter \cup {Append(q, x) : q \in shorter, x \in S}

\* Values of the condition level.
ValuePool ==
  { PyInt(50), PyInt(75), PyInt(1), PyInt(0),
    PyFloat(750), PyFloat(35),
    PyStr(<<"7", "5">>), PyStr(<<"9">>), PyStr(<<"1">>),
    PyStr(<<"a", "b", "c">>),
    PyBool(TRUE), PyBool(FALSE) }

FactValues == ValuePool
Literals == ValuePool \cup {None, PyList(<<>>)}

FieldPool ==
  { PyStr(S_score), PyStr(S_grade), PyInt(1), None, PyList(<<>>) }

OpPool ==
  {PyStr(k) : k \in OPERATORS}
    \cup {PyStr(<<"~">>), PyStr(<<"=">>), None, PyList(<<>>)}

\* Condition entries that are not lists of three elements.
EntryPool ==
  { PyInt(5), None, PyBool(TRUE), PyStr(<<"a", "b", "c">>),
    PyStr(<<"a", "b">>), PyList(<<>>),
    PyList(<<PyStr(S_score), PyStr(OpEq)>>),
    PyList(<<PyStr(S_score), PyStr(OpEq), PyInt(1), PyInt(1)>>) }

-----------------------------------------------------------------------------
\* The caller and its calls

\* The caller has built a rule set and a fact set.
Init ==
  /\ rules \in SeqsUpTo(RulePool, MaxRules)
  /\ facts \in FactPool
  /\ out = NotCalled
  /\ calls = 0

\* The caller has built one rule of one or two conditions: an optional
\* condition that holds (the fact equals itself), then the condition under
\* study; the fact set holds the field score.
InitCond ==
  /\ \E left \in FactValues, lead \in BOOLEAN :
       /\ facts = (S_score :> left)
       /\ \E c \in EntryPool
               \cup {PyList(<<f, o, v>>) :
                       f \in FieldPool, o \in OpPool, v \in Literals} :
            rules = << Rule("R", <<>>,
                            << (IF lead THEN <<Cond(S_score, OpEq, left)>>
                                ELSE <<>>) \o <<c>> >>,
                            "AWARD") >>
  /\ out = NotCalled
  /\ calls = 0

\* matched = run_rules(rules, facts)
RunRules ==
  /\ calls < MaxCalls
  /\ LET r == run_rules(rules, facts)
     IN /\ out' = r.ret
        /\ rules' = r.rules
        /\ facts' = r.facts
  /\ calls' = calls + 1

Next == RunRules

Spec == Init /\ [][Next]_vars

SpecCond == InitCond /\ [][Next]_vars

-----------------------------------------------------------------------------
\* Properties

Count(q, r) == Cardinality({i \in 1..Len(q) : q[i] = r})
Called == calls >= 1

\* The conditions list of a rule, empty when the key is absent.
CondList(r) == IF r.conditions = <<>> THEN <<>> ELSE r.conditions[1]
AllSatisfied(r) ==
  \A i \in 1..Len(CondList(r)) : satisfies(CondList(r)[i], facts) = "True"

\* The priority of a rule, 0 when the key is absent.
PriorityOrZero(r) == IF r.priority = <<>> THEN 0 ELSE r.priority[1]

C2_PriorityDescendingStable ==
  Called =>
    \E pos \in [1..Len(out.val) -> 1..Len(rules)] :
      /\ \A k \in 1..Len(out.val) : rules[pos[k]] = out.val[k]
      /\ \A i, j \in 1..Len(out.val) :
           i < j =>
             /\ pos[i] # pos[j]
             /\ PriorityOrZero(out.val[i]) >= PriorityOrZero(out.val[j])
             /\ PriorityOrZero(out.val[i]) = PriorityOrZero(out.val[j])
                  => pos[i] < pos[j]

\* Two different rules of equal priority are returned behind each other
\* although a rule of lower priority stood first in the input, and a rule
\* without a priority key is ordered against a rule of another priority.
C2_Witness ==
  /\ Called
  /\ \E i \in 1..Len(out.val) - 1 :
       /\ PriorityOrZero(out.val[i]) = PriorityOrZero(out.val[i + 1])
       /\ out.val[i].name # out.val[i + 1].name
       /\ PriorityOrZero(rules[1]) < PriorityOrZero(out.val[i])
  /\ \E i, j \in 1..Len(out.val) :
       /\ i < j
       /\ out.val[i].priority = <<>> \/ out.val[j].priority = <<>>
       /\ PriorityOrZero(out.val[i]) > PriorityOrZero(out.val[j])

\* The condition under study (the last one of the only rule), its three
\* elements and the fact it reads.
Studied == CondList(rules[1])[Len(CondList(rules[1]))]
IsTriple(c) == c.t = "list" /\ Len(c.l) = 3
Field == Studied.l[1]
Op == Studied.l[2]
Value == Studied.l[3]
Left == facts[S_score]
SupportedOp(o) ==
  o.t = "str" /\ o.s \in {OpEq, OpNe, OpGe, OpLe, OpGt, OpLt}
IsKey(f) == f.t = "str" /\ f.s \in DOMAIN facts
Scalar(x) == x.t \in {"int", "float", "bool", "str", "null"}
NoMatch == Returned(<<>>)

\* A three-element condition on a field of facts with a supported operator
\* and a literal of the data model (a number, a string or a boolean).
Comparison ==
  /\ IsTriple(Studied)
  /\ IsKey(Field)
  /\ SupportedOp(Op)
  /\ Value.t \in {"int", "float", "str", "bool"}

\* C3: no condition data makes evaluate_rule or run_rules raise.
C3_NeverRaises ==
  Called =>
    /\ \A i \in 1..Len(rules) :
         evaluate_rule(rules[i], facts) \in {"True", "False"}
    /\ out.status = "returned"

\* Numeric as the specification has it: an integer or a floating point
\* number (a boolean is a scalar of its own).
IsNumber(x) == x.t \in {"int", "float"}
DirectOrFalse(k, a, b) ==
  IF Direct(k, a, b) = "Raise" THEN "False" ELSE Direct(k, a, b)

\* C4: when either side is numeric and both convert to float the result is
\* the operator on the two floats; otherwise it is the operator on the
\* original values, not satisfied if that comparison raises.
C4_NumericCoercion ==
  (Called /\ Comparison) =>
    LET expected ==
          IF (IsNumber(Value) \/ IsNumber(Left)) /\ FloatOk(Left) /\ FloatOk(Value)
          THEN Bool3(ApplyNum(Op.s, float(Left), float(Value)))
          ELSE DirectOrFalse(Op.s, Left, Value)
    IN /\ satisfies(Studied, facts) = expected
       /\ (out.val # <<>>) = (expected = "True")

\* C5: a condition on values of incomparable types (different kinds that do
\* not both convert to float) is not satisfied, under each operator.
C5_IncomparableFailsClosed ==
  (/\ Called
   /\ Comparison
   /\ Kind(Left) # Kind(Value)
   /\ ~(FloatOk(Left) /\ FloatOk(Value)))
    => /\ satisfies(Studied, facts) = "False"
       /\ out = NoMatch

\* C6: when each side is a string or a boolean the operator is applied to
\* the two original values, without conversion to float.
C6_NoCoercionOfNonNumbers ==
  (/\ Called
   /\ Comparison
   /\ Left.t \in {"str", "bool"}
   /\ Value.t \in {"str", "bool"})
    => /\ satisfies(Studied, facts) = DirectOrFalse(Op.s, Left, Value)
       /\ (out.val # <<>>) = (Direct(Op.s, Left, Value) = "True")

\* C7: a three-element condition whose operator is not one of the six is not
\* satisfied and its rule does not match, whatever the fact and the literal.
C7_UnsupportedOperator ==
  (IsTriple(Studied) /\ Scalar(Field) /\ ~SupportedOp(Op))
    => /\ satisfies(Studied, facts) = "False"
       /\ evaluate_rule(rules[1], facts) = "False"
       /\ Called => out = NoMatch

\* The operator is unsupported, the field is in facts, one side is a number
\* (the numeric branch is entered) and the two values are equal.
C7_Witness ==
  /\ Called
  /\ IsTriple(Studied) /\ IsKey(Field) /\ ~SupportedOp(Op)
  /\ IsNumber(Left) /\ Value = Left
  /\ Len(CondList(rules[1])) = 2
  /\ out = NoMatch

\* C8: a three-element condition whose field is not a key of facts is not
\* satisfied, whatever its operator and literal, and its rule is not in the
\* output.
C8_MissingField ==
  (IsTriple(Studied) /\ Scalar(Field) /\ ~IsKey(Field))
    => /\ satisfies(Studied, facts) = "False"
       /\ evaluate_rule(rules[1], facts) = "False"
       /\ Called => out = NoMatch

\* The field grade is missing, the operator is != and every other condition
\* of the rule holds.
C8_Witness ==
  /\ Called
  /\ IsTriple(Studied) /\ Field = PyStr(S_grade) /\ Op = PyStr(OpNe)
  /\ Len(CondList(rules[1])) = 2
  /\ out = NoMatch

\* C9: a call changes neither the caller's rules nor its facts, and a call
\* after the first returns what the first returned.
C9_NoMutationSameResult ==
  [][/\ rules' = rules
     /\ facts' = facts
     /\ Called => out' = out]_vars

\* Two calls have returned matches for rules that were not given in
\* priority order.
C9_Witness ==
  /\ calls = 2
  /\ Len(out.val) >= 2
  /\ \E i, j \in 1..Len(rules) :
       i < j /\ PriorityOrZero(rules[i]) < PriorityOrZero(rules[j])

RuleA == Rule("A", <<1>>, << <<CgpaHigh>> >>, "REVIEW")
RuleB == Rule("B", <<5>>, <<>>, "AWARD")
RuleC == Rule("C", <<5>>, << <<>> >>, "PARTIAL")
Position(r) == CHOOSE i \in 1..Len(rules) : rules[i] = r

\* The rules are A, B and C in some order, C before A, and all three match.
ThreeMatching ==
  /\ Len(rules) = 3
  /\ {rules[i] : i \in 1..3} = {RuleA, RuleB, RuleC}
  /\ \A i \in 1..3 : AllSatisfied(rules[i])
  /\ Position(RuleC) < Position(RuleA)

\* C10 as stated: in any input order with C before A the output is [B, C, A].
C10_AlwaysBCA ==
  (Called /\ ThreeMatching) => out.val = <<RuleB, RuleC, RuleA>>

\* C10: in an input order with C before A the output is [B, C, A] when B is
\* listed before C and [C, B, A] when C is listed before B.
C10_TieKeepsInputOrder ==
  (Called /\ ThreeMatching) =>
    out.val = IF Position(RuleB) < Position(RuleC)
              THEN <<RuleB, RuleC, RuleA>>
              ELSE <<RuleC, RuleB, RuleA>>

\* C, A, B was given and C, B, A is returned.
C10_Witness ==
  /\ Called
  /\ ThreeMatching
  /\ rules = <<RuleC, RuleA, RuleB>>
  /\ out.val = <<RuleC, RuleB, RuleA>>

====
